---- MODULE Spec2Model ----
(***************************************************************************)
(* Model of src/main.py: the movie catalog is loaded, imputed and          *)
(* clustered once at module import, after which the Flask handlers        *)
(* search_movie (/api/search) and top100_api (/api/top100) answer queries *)
(* from the global dataframe df.                                          *)
(*                                                                         *)
(* Representation.                                                         *)
(*   - A Python str is a sequence of one-character strings.               *)
(*   - A missing text cell (NaN) is NA; a missing number is NaN.          *)
(*   - imdb_score holds 20 times the score (150 is 7.5) and title_year    *)
(*     holds twice the year, so that the median of an even number of      *)
(*     one-decimal scores or of whole years is an exact integer.          *)
(*   - The dataframe index is the 0-based RangeIndex of read_csv: the row *)
(*     with index label id is df[id + 1].                                 *)
(*   - Of the five numeric features only imdb_score and title_year are    *)
(*     read by the handlers; duration, budget and gross feed the          *)
(*     clustering alone, whose result is taken as a choice of labelling.  *)
(***************************************************************************)
EXTENDS Integers, Sequences, FiniteSets, TLC

VARIABLES
    csv,        \* the rows of movie_metadata.csv as read_csv parses them
    df,         \* the global dataframe
    pc,         \* position of the module-level script / server
    request,    \* query string of the request being answered
    response    \* what the handler returned for it

vars == <<csv, df, pc, request, response>>

----------------------------------------------------------------------------
(* Missing values and sentinels *)

NaN == -1                 \* a missing numeric cell
NA == <<"nan">>           \* a missing text cell
ND == -2                  \* the "N/D" string where a number is rendered
ND_text == <<"N/D">>      \* the "N/D" string where a text is rendered
ABSENT == <<"absent">>    \* a query parameter that was not sent

(* pd.notnull of a numeric cell and of a text cell *)
pd_notnull(x) == x # NaN

pd_notnull_text(x) == x # NA

----------------------------------------------------------------------------
(* Python str methods *)

str_lower_char(c) ==
    CASE c = "A" -> "a" [] c = "B" -> "b" [] c = "C" -> "c" [] c = "D" -> "d"
      [] c = "E" -> "e" [] c = "R" -> "r" [] c = "Y" -> "y"
      [] OTHER -> c

str_lower(s) == [i \in 1..Len(s) |-> str_lower_char(s[i])]

RECURSIVE str_lstrip(_)
str_lstrip(s) ==
    IF s # <<>> /\ s[1] = " " THEN str_lstrip(Tail(s)) ELSE s

RECURSIVE str_rstrip(_)
str_rstrip(s) ==
    IF s # <<>> /\ s[Len(s)] = " " THEN str_rstrip(SubSeq(s, 1, Len(s) - 1)) ELSE s

str_strip(s) == str_rstrip(str_lstrip(s))

(* int(text): surrounding whitespace and one sign are accepted *)
DigitChars == {"0", "1", "2", "3", "4", "5", "6", "7", "8", "9"}

DigitVal(c) ==
    CASE c = "0" -> 0 [] c = "1" -> 1 [] c = "2" -> 2 [] c = "3" -> 3
      [] c = "4" -> 4 [] c = "5" -> 5 [] c = "6" -> 6 [] c = "7" -> 7
      [] c = "8" -> 8 [] c = "9" -> 9

int_digits(s) ==
    LET t == str_strip(s)
    IN  IF t # <<>> /\ t[1] \in {"-", "+"} THEN Tail(t) ELSE t

int_ValueError(s) ==
    LET d == int_digits(s)
    IN  d = <<>> \/ \E i \in 1..Len(d) : d[i] \notin DigitChars

RECURSIVE int_magnitude(_)
int_magnitude(d) ==
    IF d = <<>> THEN 0
    ELSE 10 * int_magnitude(SubSeq(d, 1, Len(d) - 1)) + DigitVal(d[Len(d)])

int(s) ==
    LET t == str_strip(s)
    IN  IF t[1] = "-" THEN 0 - int_magnitude(int_digits(s))
        ELSE int_magnitude(int_digits(s))

----------------------------------------------------------------------------
(* re: the patterns the two handlers compile *)

(* re.compile(".*" + re.escape(movie_input) + ".*", re.IGNORECASE).search(x):
   the escaped text is matched literally, ignoring case, anywhere in x. *)
pattern_search(movie_input, x) ==
    \E i \in 1..(Len(x) - Len(movie_input) + 1) :
        str_lower(SubSeq(x, i, i + Len(movie_input) - 1)) = str_lower(movie_input)

(* re.compile(genre, re.IGNORECASE) of an unescaped text over the characters
   letters, space, ".", "|" and "(": "(" opens a group that nothing closes. *)
re_error(pat) == \E i \in 1..Len(pat) : pat[i] = "("

RECURSIVE re_alternatives(_)
re_alternatives(pat) ==
    IF \E i \in 1..Len(pat) : pat[i] = "|"
    THEN LET k == CHOOSE i \in 1..Len(pat) :
                      pat[i] = "|" /\ \A j \in 1..(i - 1) : pat[j] # "|"
         IN  {SubSeq(pat, 1, k - 1)} \cup re_alternatives(SubSeq(pat, k + 1, Len(pat)))
    ELSE {pat}

re_match_at(alt, x, i) ==
    \A j \in 1..Len(alt) :
        alt[j] = "." \/ str_lower_char(alt[j]) = str_lower_char(x[i + j - 1])

re_search(pat, x) ==
    \E alt \in re_alternatives(pat) :
        \E i \in 1..(Len(x) - Len(alt) + 1) : re_match_at(alt, x, i)

(* Series.str.contains(genre, case=False, na=False): regex=True is the default *)
str_contains(genres, genre) ==
    IF genres = NA THEN FALSE ELSE re_search(genre, genres)

----------------------------------------------------------------------------
(* Program constants *)

n_clusters == 10
ScoreThreshold == 150
TopN == 100

----------------------------------------------------------------------------
(* pandas helpers *)

IndexSeq(d) == [i \in 1..Len(d) |-> i - 1]

row(d, id) == d[id + 1]

head(s, n) == SubSeq(s, 1, IF Len(s) < n THEN Len(s) ELSE n)

(* DataFrame.median of one column: NaN cells are skipped; NaN when none is left *)
median(col) ==
    LET present == SelectSeq(col, LAMBDA v : v # NaN)
        s == SortSeq(present, LAMBDA a, b : a < b)
        n == Len(s)
    IN  IF n = 0 THEN NaN
        ELSE IF n % 2 = 1 THEN s[(n + 1) \div 2]
        ELSE (s[n \div 2] + s[n \div 2 + 1]) \div 2

(* df[numeric_features].fillna(df[numeric_features].median()) *)
fillna(d) ==
    LET m_score == median([i \in 1..Len(d) |-> d[i].imdb_score])
        m_year == median([i \in 1..Len(d) |-> d[i].title_year])
    IN  [i \in 1..Len(d) |->
            [d[i] EXCEPT !.imdb_score = IF @ = NaN THEN m_score ELSE @,
                         !.title_year = IF @ = NaN THEN m_year ELSE @]]

(* All orders of the elements of S *)
RECURSIVE PermsOf(_)
PermsOf(S) ==
    IF S = {} THEN {<<>>}
    ELSE UNION {{<<x>> \o p : p \in PermsOf(S \ {x})} : x \in S}

(* rows ordered by descending key, rows of equal key in the order of `rows` *)
stable_descending(d, rows, by) ==
    LET n == Len(rows)
        p == SortSeq([k \in 1..n |-> k],
                     LAMBDA a, b :
                         \/ row(d, rows[a])[by] > row(d, rows[b])[by]
                         \/ /\ row(d, rows[a])[by] = row(d, rows[b])[by]
                            /\ a < b)
    IN  [k \in 1..n |-> rows[p[k]]]

(* positions of s, sorted by key, at which a run of two or more rows of
   equal key starts *)
run_starts(d, s, by) ==
    {i \in 1..(Len(s) - 1) :
        /\ row(d, s[i + 1])[by] = row(d, s[i])[by]
        /\ i = 1 \/ row(d, s[i - 1])[by] # row(d, s[i])[by]}

(* last position of the run of equal key that starts at position i of s *)
RECURSIVE run_end(_, _, _, _)
run_end(d, s, by, i) ==
    IF i < Len(s) /\ row(d, s[i + 1])[by] = row(d, s[i])[by]
    THEN run_end(d, s, by, i + 1)
    ELSE i

(* every way to order, within s, the runs of equal key that start at the
   positions `starts` *)
RECURSIVE tie_orders(_, _, _, _)
tie_orders(d, s, by, starts) ==
    IF starts = {} THEN {s}
    ELSE LET i == CHOOSE x \in starts : TRUE
             e == run_end(d, s, by, i)
         IN  UNION {tie_orders(d,
                               [k \in 1..Len(s) |->
                                   IF k \in i..e THEN g[k - i + 1] ELSE s[k]],
                               by, starts \ {i}) :
                        g \in PermsOf({s[j] : j \in i..e})}

(* DataFrame.sort_values(by=..., ascending=False) with the default
   kind="quicksort", which is not a stable sort: the result is in descending
   key order and rows of equal key come in whatever order the numpy build
   gives.  The stable order is one of the results.  The column holds no NaN
   once startup has succeeded, so na_position plays no part. *)
sort_values(d, rows, by) ==
    LET s == stable_descending(d, rows, by)
    IN  tie_orders(d, s, by, run_starts(d, s, by))

----------------------------------------------------------------------------
(* Startup: lines 32-48 *)

(* KMeans(n_clusters=10, random_state=42).fit_predict raises ValueError when
   a NaN is left in the features (a column with no value at all) or when
   there are fewer samples than clusters. *)
fit_predict_ValueError(d) ==
    \/ Len(d) < n_clusters
    \/ \E i \in 1..Len(d) : d[i].imdb_score = NaN \/ d[i].title_year = NaN

(* The labels fit_predict returns.  The clustering itself is library code:
   its result is one labelling with values in 0..n_clusters-1, fixed by the
   data and the seed.  The labellings tried are: one cluster holding every
   row, and rows dealt round-robin to the clusters, each from two offsets. *)
LabelStrides == {0, 1}
LabelOffsets == {0, n_clusters - 1}

(* labels numbered from one *)
fit_predict_from_one(d) ==
    {[i \in 1..Len(d) |-> 1 + ((m * i + c) % n_clusters)] :
        m \in LabelStrides, c \in LabelOffsets}

fit_predict(d) ==
    {[i \in 1..Len(d) |-> (m * i + c) % n_clusters] :
        m \in LabelStrides, c \in LabelOffsets}

----------------------------------------------------------------------------
(* Rendering of one row: lines 157-163 and 229-235 *)

render(d, id) ==
    LET r == row(d, id)
    IN  [movie_title |-> r.movie_title,
         title_year |-> IF pd_notnull(r.title_year) THEN r.title_year \div 2 ELSE ND,
         director_name |-> IF pd_notnull_text(r.director_name) THEN r.director_name
                           ELSE ND_text,
         genres |-> IF pd_notnull_text(r.genres) THEN r.genres ELSE ND_text,
         imdb_score |-> r.imdb_score]

render_all(d, rows) == [k \in 1..Len(rows) |-> render(d, rows[k])]

(* one disambiguation candidate: lines 126-130; title_year is the raw cell *)
candidate(d, id) ==
    [id |-> id,
     movie_title |-> row(d, id).movie_title,
     title_year |-> IF pd_notnull(row(d, id).title_year) THEN row(d, id).title_year
                    ELSE ND]

args_get(args, key, default) == IF args[key] = ABSENT THEN default ELSE args[key]

error_response(code, message) ==
    [status |-> code, body |-> "error", error |-> message]

YEAR == <<"y", "e", "a", "r">>
IMDB == <<"i", "m", "d", "b">>
SCORE == <<"s", "c", "o", "r", "e">>

----------------------------------------------------------------------------
(* search_movie: lines 96-171 *)

(* the comparison of line 117 without .str.lower() on the titles *)
exact_match_case_sensitive(d, movie_input_lower) ==
    SelectSeq(IndexSeq(d),
              LAMBDA id : str_strip(row(d, id).movie_title) = movie_input_lower)

(* line 117: rows whose stripped, lowered title equals the lowered query *)
exact_match(d, movie_input_lower) ==
    SelectSeq(IndexSeq(d),
              LAMBDA id : str_lower(str_strip(row(d, id).movie_title)) = movie_input_lower)

(* lines 111-112 and 119-120 *)
candidate_matches(d, movie_input) ==
    SelectSeq(IndexSeq(d),
              LAMBDA id : pattern_search(movie_input, str_strip(row(d, id).movie_title)))

(* the membership test of line 113 made against df.index *)
selection_invalid_any_row(d, matches, selection) ==
    matches = <<>> \/ selection \notin 0..(Len(d) - 1)

(* line 113: candidate_matches.empty or selection not in candidate_matches.index *)
selection_invalid(d, matches, selection) ==
    matches = <<>> \/ \A k \in 1..Len(matches) : matches[k] # selection

(* the filter of lines 143-146 with a strict threshold *)
filmes_semelhantes_strict(d, cluster_id) ==
    SelectSeq(IndexSeq(d),
              LAMBDA id : /\ row(d, id).cluster = cluster_id
                          /\ row(d, id).imdb_score > ScoreThreshold)

(* lines 143-146 *)
filmes_semelhantes(d, cluster_id) ==
    SelectSeq(IndexSeq(d),
              LAMBDA id : /\ row(d, id).cluster = cluster_id
                          /\ row(d, id).imdb_score >= ScoreThreshold)

(* lines 149-152 *)
search_sort(d, rows, order) ==
    IF order = YEAR THEN sort_values(d, rows, "title_year")
    ELSE sort_values(d, rows, "imdb_score")

(* lines 139-171 for the row filme_selecionado; `selected` and `rows` are the
   index labels of the resolved row and of the rows listed, kept beside the
   JSON body *)
similar_responses(d, selected, order) ==
    LET cluster_id == row(d, selected).cluster
    IN  {[status |-> 200, body |-> "similar",
          selected_movie |-> row(d, selected).movie_title,
          cluster |-> cluster_id,
          order |-> order,
          similar_movies |-> render_all(d, rows),
          selected |-> selected,
          rows |-> rows] :
            rows \in search_sort(d, filmes_semelhantes(d, cluster_id), order)}

search_movie_responses(d, args) ==
    LET movie_input == str_strip(args_get(args, "movie", <<>>))
        selection == args.selection
        order == str_lower(args_get(args, "order", IMDB))
        movie_input_lower == str_lower(movie_input)
    IN  IF movie_input = <<>>
        THEN {error_response(400, "Parametro 'movie' e obrigatorio.")}
        ELSE IF selection # ABSENT
        THEN IF int_ValueError(selection)
             THEN {error_response(400, "Parametro 'selection' deve ser um inteiro.")}
             ELSE LET matches == candidate_matches(d, movie_input)
                  IN  IF selection_invalid(d, matches, int(selection))
                      THEN {error_response(400, "Selecao invalida.")}
                      ELSE similar_responses(d, int(selection), order)
        ELSE LET exact == exact_match(d, movie_input_lower)
             IN  IF exact = <<>>
                 THEN LET matches == candidate_matches(d, movie_input)
                      IN  IF matches = <<>>
                          THEN {error_response(400, "Nenhum filme encontrado.")}
                          ELSE {[status |-> 200, body |-> "candidates",
                                 message |-> "Filme nao encontrado exatamente. Selecione uma das opcoes.",
                                 candidates |-> [k \in 1..Len(matches) |->
                                                    candidate(d, matches[k])]]}
                 ELSE similar_responses(d, exact[1], order)

----------------------------------------------------------------------------
(* top100_api: lines 209-241 *)

(* lines 213-215 *)
filtered_df(d, genre) ==
    IF genre # <<>>
    THEN SelectSeq(IndexSeq(d), LAMBDA id : str_contains(row(d, id).genres, genre))
    ELSE IndexSeq(d)

(* lines 218-224 with the requested order applied before the truncation *)
top_df_year_first(d, filtered, order) ==
    IF order = YEAR
    THEN {head(s, TopN) : s \in sort_values(d, filtered, "title_year")}
    ELSE {head(s, TopN) : s \in sort_values(d, filtered, "imdb_score")}

(* lines 218-224: rank by score, keep the first 100, then sort again *)
top_df(d, filtered, order) ==
    UNION {IF order = YEAR THEN sort_values(d, head(s, TopN), "title_year")
           ELSE sort_values(d, head(s, TopN), "imdb_score") :
               s \in sort_values(d, filtered, "imdb_score")}

(* re.error raised by str.contains is not caught: Flask answers 500 *)
top100_api_responses(d, args) ==
    LET genre == str_strip(args_get(args, "genre", <<>>))
        order == str_lower(args_get(args, "order", SCORE))
    IN  IF genre # <<>> /\ re_error(genre)
        THEN {[status |-> 500, body |-> "exception", error |-> "re.error"]}
        ELSE {[status |-> 200, body |-> "top100",
               order |-> order,
               genre |-> genre,
               movies |-> render_all(d, rows),
               rows |-> rows] :
                 rows \in top_df(d, filtered_df(d, genre), order)}

----------------------------------------------------------------------------
(* Inputs: the catalogs read at startup and the query strings sent *)

MaxOver == 1    \* rows a large catalog has beyond the 100 that top100 keeps

T_ab == <<"a", "b">>
T_AB_padded == <<" ", "A", "B", " ">>
T_abc == <<"a", "b", "c">>
T_b == <<"b">>
T_cab == <<"c", "a", "b", " ">>
G_d == <<"d">>
G_D == <<"D">>
G_a == <<"a">>
G_a_or_d == <<"a", "|", "d">>
Director == <<"r">>

(* the rows a catalog begins with are drawn from these *)
HeadRows ==
    {[movie_title |-> T_ab, director_name |-> Director, genres |-> G_a_or_d,
      imdb_score |-> 160, title_year |-> 4000],
     [movie_title |-> T_AB_padded, director_name |-> NA, genres |-> G_D,
      imdb_score |-> 150, title_year |-> NaN],
     [movie_title |-> T_abc, director_name |-> Director, genres |-> NA,
      imdb_score |-> 148, title_year |-> 4000],
     [movie_title |-> T_b, director_name |-> Director, genres |-> G_a,
      imdb_score |-> NaN, title_year |-> NaN]}

(* the i-th of the rows that follow: scores fall from 9.9 by 0.1 a row down
   to 0.0 while the years rise from 1901 by one a row *)
FillRow(i) ==
    [movie_title |-> T_cab, director_name |-> Director, genres |-> G_d,
     imdb_score |-> IF i < 100 THEN 2 * (100 - i) ELSE 0,
     title_year |-> 2 * (1900 + i)]

Catalog(hd, n) == hd \o [i \in 1..n |-> FillRow(i)]

Heads == {<<a, b>> : a \in HeadRows, b \in HeadRows}

(* catalogs one row short of n_clusters, of exactly n_clusters rows, and
   large ones in which more than TopN rows pass a genre filter *)
Catalogs ==
    {Catalog(hd, n) : hd \in Heads, n \in {n_clusters - 3, n_clusters - 2}}
    \cup {Catalog(hd, TopN + MaxOver) : hd \in Heads}

SearchArgs ==
    [movie : {ABSENT, T_ab, <<" ", "A", "b", " ">>, T_b, <<"c", "a", "b">>,
              <<"d", "d">>, <<" ">>},
     selection : {ABSENT, <<"x">>, <<"0">>, <<" ", "1">>, <<"2">>, <<"-", "1">>,
                  <<"1", "0", "3">>},
     order : {ABSENT, YEAR}]

Top100Args ==
    [genre : {ABSENT, G_d, <<" ", "D", " ">>, G_a_or_d, <<".">>, <<"(">>, <<"b">>},
     order : {ABSENT, <<"Y", "E", "A", "R">>}]

NoRequest == [route |-> "none"]
NoResponse == [status |-> 0, body |-> "none"]

----------------------------------------------------------------------------
(* The state machine *)

Init ==
    /\ csv \in Catalogs
    /\ df = <<>>
    /\ pc = "read_csv"
    /\ request = NoRequest
    /\ response = NoResponse

(* line 34 *)
read_csv ==
    /\ pc = "read_csv"
    /\ df' = csv
    /\ pc' = "fillna"
    /\ UNCHANGED <<csv, request, response>>

(* line 40 *)
fillna_features ==
    /\ pc = "fillna"
    /\ df' = fillna(df)
    /\ pc' = "fit"
    /\ UNCHANGED <<csv, request, response>>

(* lines 43-48, the clustering succeeds *)
assign_clusters ==
    /\ pc = "fit"
    /\ ~fit_predict_ValueError(df)
    /\ \E labels \in fit_predict(df) :
           df' = [i \in 1..Len(df) |->
                     [movie_title |-> df[i].movie_title,
                      director_name |-> df[i].director_name,
                      genres |-> df[i].genres,
                      imdb_score |-> df[i].imdb_score,
                      title_year |-> df[i].title_year,
                      cluster |-> labels[i]]]
    /\ pc' = "run"
    /\ UNCHANGED <<csv, request, response>>

(* lines 43-48, the clustering raises: the import fails and nothing is served *)
startup_fails ==
    /\ pc = "fit"
    /\ fit_predict_ValueError(df)
    /\ pc' = "failed"
    /\ UNCHANGED <<csv, df, request, response>>

(* lines 243-244 *)
app_run ==
    /\ pc = "run"
    /\ pc' = "serving"
    /\ UNCHANGED <<csv, df, request, response>>

(* GET /api/search *)
search_movie ==
    /\ pc = "serving"
    /\ response = NoResponse
    /\ \E args \in SearchArgs :
           /\ request' = [route |-> "search", args |-> args]
           /\ response' \in search_movie_responses(df, args)
    /\ UNCHANGED <<csv, df, pc>>

(* top100 sorting the global dataframe itself (inplace=True) *)
top100_api_inplace ==
    /\ pc = "serving"
    /\ response = NoResponse
    /\ \E args \in Top100Args :
           /\ request' = [route |-> "top100", args |-> args]
           /\ response' \in top100_api_responses(df, args)
           /\ df' = IF response'.body = "top100"
                    THEN [k \in 1..Len(response'.rows) |-> row(df, response'.rows[k])]
                    ELSE df
    /\ UNCHANGED <<csv, pc>>

(* GET /api/top100 *)
top100_api ==
    /\ pc = "serving"
    /\ response = NoResponse
    /\ \E args \in Top100Args :
           /\ request' = [route |-> "top100", args |-> args]
           /\ response' \in top100_api_responses(df, args)
    /\ UNCHANGED <<csv, df, pc>>

(* the response has been sent: lines 171 and 241 *)
send_response ==
    /\ pc = "serving"
    /\ response # NoResponse
    /\ request' = NoRequest
    /\ response' = NoResponse
    /\ UNCHANGED <<csv, df, pc>>

Next ==
    \/ read_csv
    \/ fillna_features
    \/ assign_clusters
    \/ startup_fails
    \/ app_run
    \/ search_movie
    \/ top100_api
    \/ send_response

Spec == Init /\ [][Next]_vars

----------------------------------------------------------------------------
(* Properties *)

Ids == 0..(Len(df) - 1)

SetOf(s) == {s[k] : k \in 1..Len(s)}

MinOf(S) == CHOOSE x \in S : \A y \in S : x <= y

QueryText == str_strip(args_get(request.args, "movie", <<>>))

(* rows whose title equals the query once both are trimmed and lowered *)
ExactIds ==
    {id \in Ids : str_lower(str_strip(row(df, id).movie_title)) = str_lower(QueryText)}

(* rows whose trimmed title contains the query, ignoring case *)
CandidateIds ==
    {id \in Ids : pattern_search(QueryText, str_strip(row(df, id).movie_title))}

(* C1: a search sent without selection whose (non-empty) query equals some
   title after trimming and ignoring case is answered with the similarity
   response of the first such row in catalog order, never with candidates. *)
C1_ExactTitleResolves ==
    (/\ request.route = "search"
     /\ request.args.selection = ABSENT
     /\ QueryText # <<>>
     /\ ExactIds # {})
    => /\ response.body = "similar"
       /\ response.status = 200
       /\ response.selected = MinOf(ExactIds)
       /\ response.selected_movie = row(df, MinOf(ExactIds)).movie_title

C1_Witness ==
    /\ request.route = "search"
    /\ request.args.selection = ABSENT
    /\ Cardinality(ExactIds) >= 2
    /\ CandidateIds \ ExactIds # {}
    /\ response.body = "similar"
    /\ response.selected_movie # request.args.movie
    /\ response.selected = MinOf(ExactIds)

(* C2: in every resolved search the rows listed are exactly the rows of the
   resolved row's cluster whose imdb_score is at least 7.5, each once; the
   resolved row is among them whenever its own score is at least 7.5. *)
C2_SimilarIsClusterAboveThreshold ==
    response.body = "similar"
    => LET c == row(df, response.selected).cluster
           S == SetOf(response.rows)
       IN  /\ response.cluster = c
           /\ S = {id \in Ids : /\ row(df, id).cluster = c
                                /\ row(df, id).imdb_score >= ScoreThreshold}
           /\ Cardinality(S) = Len(response.rows)
           /\ Len(response.similar_movies) = Len(response.rows)
           /\ \A k \in 1..Len(response.rows) :
                  /\ response.similar_movies[k].imdb_score
                         = row(df, response.rows[k]).imdb_score
                  /\ response.similar_movies[k].imdb_score >= ScoreThreshold
           /\ (row(df, response.selected).imdb_score >= ScoreThreshold
                  => response.selected \in S)

C2_Witness ==
    /\ response.body = "similar"
    /\ request.args.selection # ABSENT
    /\ row(df, response.selected).imdb_score = ScoreThreshold
    /\ response.selected \in SetOf(response.rows)
    /\ \E id \in Ids : /\ row(df, id).cluster = response.cluster
                       /\ row(df, id).imdb_score < ScoreThreshold
    /\ \E id \in Ids : /\ row(df, id).cluster # response.cluster
                       /\ row(df, id).imdb_score >= ScoreThreshold

(* C3: with order=year the rows top100 returns are the first 100 of the
   genre-filtered catalog by descending imdb_score: as many as 100 or all
   that pass the filter, each once, and no row left out has a higher score
   than a row returned, whatever its year. *)
C3_TruncationByScore ==
    (response.body = "top100" /\ response.order = YEAR)
    => LET F == SetOf(filtered_df(df, response.genre))
           S == SetOf(response.rows)
       IN  /\ S \subseteq F
           /\ Cardinality(S) = Len(response.rows)
           /\ Len(response.rows) = IF Cardinality(F) < TopN THEN Cardinality(F) ELSE TopN
           /\ \A i \in S : \A j \in F \ S :
                  row(df, i).imdb_score >= row(df, j).imdb_score

C3_Witness ==
    /\ response.body = "top100"
    /\ response.order = YEAR
    /\ response.genre # <<>>
    /\ LET F == SetOf(filtered_df(df, response.genre))
           S == SetOf(response.rows)
       IN  /\ Cardinality(F) > TopN
           /\ Cardinality(F) < Len(df)
           /\ \E i \in S : \E j \in F \ S :
                  row(df, j).title_year > row(df, i).title_year

(* C4: with order=year the similar rows are in non-increasing title_year
   order and rows of equal title_year keep their catalog order. *)
C4_YearOrderStable ==
    (response.body = "similar" /\ response.order = YEAR)
    => \A k \in 1..(Len(response.rows) - 1) :
           LET a == response.rows[k]
               b == response.rows[k + 1]
           IN  \/ row(df, a).title_year > row(df, b).title_year
               \/ /\ row(df, a).title_year = row(df, b).title_year
                  /\ a < b

(* C5: with a non-empty genre g every row top100 returns has genre text that
   contains g literally, ignoring case, and none has missing genre text. *)
C5_GenreLiteralSubstring ==
    (response.body = "top100" /\ response.genre # <<>>)
    => \A k \in 1..Len(response.rows) :
           /\ row(df, response.rows[k]).genres # NA
           /\ pattern_search(response.genre, row(df, response.rows[k]).genres)

(* C6: top100 answers every genre and order with the success response. *)
C6_Top100AlwaysSucceeds ==
    request.route = "top100"
    => /\ response.status = 200
       /\ response.body = "top100"

(* C7: a row whose title_year is missing in the input is listed with the
   "N/D" sentinel as title_year in every search and top100 response. *)
C7_MissingYearIsND ==
    /\ response.body = "similar"
       => \A k \in 1..Len(response.rows) :
              row(csv, response.rows[k]).title_year = NaN
                  => response.similar_movies[k].title_year = ND
    /\ response.body = "top100"
       => \A k \in 1..Len(response.rows) :
              row(csv, response.rows[k]).title_year = NaN
                  => response.movies[k].title_year = ND

(* C8: a search with a non-empty query and an integer selection s resolves
   to row s exactly when s is a substring candidate of the query; otherwise
   it answers the invalid-selection error, exact title match or not. *)
C8_SelectionMustBeCandidate ==
    (/\ request.route = "search"
     /\ QueryText # <<>>
     /\ request.args.selection # ABSENT
     /\ ~int_ValueError(request.args.selection))
    => IF int(request.args.selection) \in CandidateIds
       THEN /\ response.body = "similar"
            /\ response.selected = int(request.args.selection)
            /\ response.selected_movie
                   = row(df, int(request.args.selection)).movie_title
       ELSE response = error_response(400, "Selecao invalida.")

C8_Witness ==
    /\ request.route = "search"
    /\ request.args.selection # ABSENT
    /\ ~int_ValueError(request.args.selection)
    /\ int(request.args.selection) \in Ids \ CandidateIds
    /\ ExactIds # {}
    /\ response = error_response(400, "Selecao invalida.")

(* C9: whenever a query is being served startup has completed and every row
   carries a cluster label in 0..9; once startup has failed, the server never
   serves. *)
C9_LabelsReady ==
    (pc = "serving" \/ request # NoRequest \/ response # NoResponse)
    => /\ pc = "serving"
       /\ Len(df) = Len(csv)
       /\ \A i \in 1..Len(df) : df[i].cluster \in 0..(n_clusters - 1)

(* C9, as a property of behaviours: the labels are ready in every state in
   which a query is served, and a failed startup is final. *)
C9_StartupGate ==
    /\ []C9_LabelsReady
    /\ [][pc = "failed" => pc' = "failed"]_vars

C9_Witness ==
    /\ pc = "serving"
    /\ response.body = "similar"
    /\ response.cluster = n_clusters - 1
    /\ \E i \in 1..Len(csv) : csv[i].imdb_score = NaN

====
